---- MODULE Spec2Model ----
(***************************************************************************)
(* Model of the two declarative macros of src/MyDeclImpl/structs.rs:       *)
(* struct_default! and struct_new!.  An invocation receives a batch of     *)
(* struct declarations; macro expansion tries the rules of the macro in    *)
(* order on the remaining input, transcribes the matching rule's body and  *)
(* re-invokes the macro on the tail.  The expanded items are then used by  *)
(* the program: it calls the generated constructors.                       *)
(***************************************************************************)
EXTENDS Integers, Sequences, FiniteSets, TLC

\* Longest batch of declarations handed to one invocation.
MaxBatch == 2
\* Largest value of the run-time clock read by a call-time default expression.
MaxClock == 1

Macros == {"struct_default", "struct_new"}

\* Struct names, by position in the batch.
Names == <<"A", "B", "C", "D", "E", "F">>

\* Values a caller passes to new(...).
ArgValues == {1, 2}

(***************************************************************************)
(* Input tokens.  Types and expressions are opaque to the macros.  An      *)
(* expression is a literal or a read of the run-time clock; NoDefault      *)
(* stands for a field written without "= expr".                            *)
(***************************************************************************)
Lit(v) == [op |-> "lit", v |-> v]
ClockExpr == [op |-> "clock", v |-> 0]
NoDefault == [op |-> "none", v |-> 0]

FooParam == [vis |-> "pub", name |-> "foo", type |-> "T"]
QuxParam == [vis |-> "", name |-> "qux", type |-> "u8"]
BarField == [vis |-> "pub", name |-> "bar", type |-> "&'a str", val |-> Lit(233)]
BazField == [vis |-> "", name |-> "baz", type |-> "u8", val |-> ClockExpr]
BadField == [vis |-> "", name |-> "bad", type |-> "u8", val |-> NoDefault]

\* What follows the struct name's header: a ";" or an optional parameter
\* list and a field block.
Shapes ==
    { [body |-> "unit",  hasParams |-> FALSE, params |-> <<>>, fields |-> <<>>],
      [body |-> "block", hasParams |-> FALSE, params |-> <<>>, fields |-> <<>>],
      [body |-> "block", hasParams |-> FALSE, params |-> <<>>,
       fields |-> <<BarField, BazField>>],
      [body |-> "block", hasParams |-> FALSE, params |-> <<>>,
       fields |-> <<BadField>>],
      [body |-> "block", hasParams |-> TRUE, params |-> <<FooParam>>,
       fields |-> <<>>],
      [body |-> "block", hasParams |-> TRUE, params |-> <<FooParam, QuxParam>>,
       fields |-> <<BarField, BazField>>] }

\* Attributes, visibility, generics and where-clauses of a declaration.
Headers ==
    { [attrs |-> <<>>, vis |-> "", generics |-> <<>>, where |-> <<>>],
      [attrs |-> <<"derive(Debug)">>, vis |-> "", generics |-> <<>>,
       where |-> <<>>],
      [attrs |-> <<"derive(Debug)", "allow(unused)">>, vis |-> "pub",
       generics |-> <<"'a", "T">>, where |-> <<>>],
      [attrs |-> <<>>, vis |-> "pub", generics |-> <<"'a", "T">>,
       where |-> <<[id |-> "T", limit |-> "Copy"],
                   [id |-> "T", limit |-> "Ord"]>>] }

Decl(h, s, n) ==
    [attrs |-> h.attrs, vis |-> h.vis, name |-> n, generics |-> h.generics,
     hasParams |-> s.hasParams, params |-> s.params, where |-> h.where,
     body |-> s.body, fields |-> s.fields]

\* The batches of length n: the i-th declaration is named Names[i].
BatchesOfLen(n) ==
    { [i \in 1..n |-> Decl(c[i][1], c[i][2], Names[i])] :
        c \in [1..n -> Headers \X Shapes] }

Batches == UNION { BatchesOfLen(n) : n \in 0..MaxBatch }

VARIABLES
    macro,      \* the macro that was invoked
    batch,      \* the input of the invocation
    pending,    \* the input of the current (recursive) invocation
    emitted,    \* the items transcribed so far
    output,     \* the items the expansion delivers to the crate
    pc,         \* "Pending", "Done" or "Failed"
    clock,      \* run-time clock of the compiled program
    call,       \* the last constructor call
    instance    \* the value the last constructor call returned

vars == <<macro, batch, pending, emitted, output, pc, clock, call, instance>>

NoCall == [fn |-> "none", target |-> "", args |-> <<>>, at |-> 0]

Init ==
    /\ macro \in Macros
    /\ batch \in Batches
    /\ pending = batch
    /\ emitted = <<>>
    /\ output = <<>>
    /\ pc = "Pending"
    /\ clock = 0
    /\ call = NoCall
    /\ instance = <<>>

(***************************************************************************)
(* Matchers: the left-hand sides of the rules.                             *)
(***************************************************************************)

\* Variant: "$field_vis $field: $type $(= $val)?", the default made optional.
FieldMatchesOptionalDefault(f) == TRUE

\* "$field_vis $field: $type = $val": a field must carry a default.
FieldMatches(f) == f.val # NoDefault

\* struct_default, rule 1: "$vis struct $s_name;" and nothing else.
DefaultUnitRuleMatches(input) ==
    /\ Len(input) = 1
    /\ input[1].body = "unit"
    /\ input[1].attrs = <<>>
    /\ input[1].generics = <<>>
    /\ input[1].where = <<>>
    /\ ~input[1].hasParams

\* struct_default, rule 2: attributes, visibility, name, optional generics,
\* a block of fields with defaults, then any tail.
DefaultStructRuleMatches(input) ==
    /\ Len(input) >= 1
    /\ input[1].body = "block"
    /\ ~input[1].hasParams
    /\ input[1].where = <<>>
    /\ \A i \in 1..Len(input[1].fields) : FieldMatches(input[1].fields[i])

\* struct_default, rule 3: "()".
DefaultEmptyRuleMatches(input) == input = <<>>

\* struct_new, rule 1: "$vis struct $s_name;" and nothing else.
NewUnitRuleMatches(input) ==
    /\ Len(input) = 1
    /\ input[1].body = "unit"
    /\ input[1].attrs = <<>>
    /\ input[1].generics = <<>>
    /\ input[1].where = <<>>
    /\ ~input[1].hasParams

\* struct_new, rule 2: attributes, visibility, name, optional generics,
\* optional parameter list, optional where-clauses, a block of fields with
\* defaults, then any tail.
NewStructRuleMatches(input) ==
    /\ Len(input) >= 1
    /\ input[1].body = "block"
    /\ \A i \in 1..Len(input[1].fields) : FieldMatches(input[1].fields[i])

\* struct_new, rule 3: "()".
NewEmptyRuleMatches(input) == input = <<>>

(***************************************************************************)
(* Transcribers: the right-hand sides of the rules.                        *)
(***************************************************************************)

\* "$field_vis $field: $type": the field without its default.
FieldDefs(fields) ==
    [i \in 1..Len(fields) |->
        [vis |-> fields[i].vis, name |-> fields[i].name, type |-> fields[i].type]]

\* "$field: $val": the field initialised from its default expression.
FieldInits(fields) ==
    [i \in 1..Len(fields) |->
        [name |-> fields[i].name, src |-> "expr", expr |-> fields[i].val]]

\* "$p_vis $p_name: $p_type,": a parameter as a field of the struct.
ParamDefs(params) ==
    [i \in 1..Len(params) |->
        [vis |-> params[i].vis, name |-> params[i].name, type |-> params[i].type]]

\* "$p_name: $p_type": a parameter of fn new.
FnParams(params) ==
    [i \in 1..Len(params) |-> [name |-> params[i].name, type |-> params[i].type]]

\* "$p_name,": the field initialised from the parameter of the same name.
ParamInits(params) ==
    [i \in 1..Len(params) |->
        [name |-> params[i].name, src |-> "param", expr |-> NoDefault]]

\* "$vis struct $s_name;"
DefaultUnitStruct(d) ==
    [kind |-> "struct", attrs |-> <<>>, vis |-> d.vis, name |-> d.name,
     generics |-> <<>>, where |-> <<>>, unit |-> TRUE, fields |-> <<>>]

\* "$(#[$attr])* $vis struct $name <generics> { fields }"
DefaultStructDef(d) ==
    [kind |-> "struct", attrs |-> d.attrs, vis |-> d.vis, name |-> d.name,
     generics |-> d.generics, where |-> <<>>, unit |-> FALSE,
     fields |-> FieldDefs(d.fields)]

\* Variant: the defaults are paired with the fields in the opposite order.
DefaultImplSwappedDefaults(d) ==
    [kind |-> "impl", attrs |-> <<>>, trait |-> "Default", name |-> d.name,
     generics |-> d.generics, where |-> <<>>,
     fn |-> [vis |-> "", name |-> "default", params |-> <<>>,
             body |-> [i \in 1..Len(d.fields) |->
                        [name |-> d.fields[i].name, src |-> "expr",
                         expr |-> d.fields[Len(d.fields) + 1 - i].val]]]]

\* "impl <generics> Default for $name <generics> { fn default() -> Self {..} }"
DefaultImpl(d) ==
    [kind |-> "impl", attrs |-> <<>>, trait |-> "Default", name |-> d.name,
     generics |-> d.generics, where |-> <<>>,
     fn |-> [vis |-> "", name |-> "default", params |-> <<>>,
             body |-> FieldInits(d.fields)]]

\* "$vis struct $s_name;"
NewUnitStruct(d) ==
    [kind |-> "struct", attrs |-> <<>>, vis |-> d.vis, name |-> d.name,
     generics |-> <<>>, where |-> <<>>, unit |-> TRUE, fields |-> <<>>]

\* Variant: the default-backed fields are listed before the parameters.
NewStructDefFieldsFirst(d) ==
    [kind |-> "struct", attrs |-> d.attrs, vis |-> d.vis, name |-> d.name,
     generics |-> d.generics, where |-> d.where, unit |-> FALSE,
     fields |-> FieldDefs(d.fields) \o ParamDefs(d.params)]

\* "$(#[$attr])* $vis struct $s_name <generics> where .. { params, fields }"
NewStructDef(d) ==
    [kind |-> "struct", attrs |-> d.attrs, vis |-> d.vis, name |-> d.name,
     generics |-> d.generics, where |-> d.where, unit |-> FALSE,
     fields |-> ParamDefs(d.params) \o FieldDefs(d.fields)]

\* Variant: fn new declares its parameters in the opposite order.
NewImplReversedParams(d) ==
    [kind |-> "impl", attrs |-> <<>>, trait |-> "", name |-> d.name,
     generics |-> d.generics, where |-> d.where,
     fn |-> [vis |-> "", name |-> "new",
             params |-> [i \in 1..Len(d.params) |->
                          FnParams(d.params)[Len(d.params) + 1 - i]],
             body |-> ParamInits(d.params) \o FieldInits(d.fields)]]

\* "impl <generics> $s_name <generics> where .. { fn new(params) -> Self {..} }"
NewImpl(d) ==
    [kind |-> "impl", attrs |-> <<>>, trait |-> "", name |-> d.name,
     generics |-> d.generics, where |-> d.where,
     fn |-> [vis |-> "", name |-> "new", params |-> FnParams(d.params),
             body |-> ParamInits(d.params) \o FieldInits(d.fields)]]

\* The items rule 2 of struct_default transcribes for the head declaration.
DefaultStructItems(d) == <<DefaultStructDef(d), DefaultImpl(d)>>

\* Variant: no impl block for a declaration without parameters and fields.
NewStructItemsNoImplWhenEmpty(d) ==
    IF d.params = <<>> /\ d.fields = <<>>
    THEN <<NewStructDef(d)>>
    ELSE <<NewStructDef(d), NewImpl(d)>>

\* The items rule 2 of struct_new transcribes for the head declaration.
NewStructItems(d) == <<NewStructDef(d), NewImpl(d)>>

\* Variant: the recursive invocation is handed nothing.
DefaultTailDropped(input) == <<>>

\* "struct_default! { $($tail)* }": the input of the recursive invocation.
DefaultTail(input) == Tail(input)

\* "struct_new! { $($tail)* }": the input of the recursive invocation.
NewTail(input) == Tail(input)

(***************************************************************************)
(* Expansion steps.                                                        *)
(***************************************************************************)
Runtime == <<clock, call, instance>>

DefaultUnitRule ==
    /\ pc = "Pending" /\ macro = "struct_default"
    /\ DefaultUnitRuleMatches(pending)
    /\ emitted' = emitted \o <<DefaultUnitStruct(pending[1])>>
    /\ pending' = <<>>
    /\ output' = emitted'
    /\ pc' = "Done"
    /\ UNCHANGED <<macro, batch, Runtime>>

DefaultStructRule ==
    /\ pc = "Pending" /\ macro = "struct_default"
    /\ ~DefaultUnitRuleMatches(pending)
    /\ DefaultStructRuleMatches(pending)
    /\ emitted' = emitted \o DefaultStructItems(pending[1])
    /\ pending' = DefaultTail(pending)
    /\ UNCHANGED <<macro, batch, output, pc, Runtime>>

DefaultEmptyRule ==
    /\ pc = "Pending" /\ macro = "struct_default"
    /\ ~DefaultUnitRuleMatches(pending)
    /\ ~DefaultStructRuleMatches(pending)
    /\ DefaultEmptyRuleMatches(pending)
    /\ output' = emitted
    /\ pc' = "Done"
    /\ UNCHANGED <<macro, batch, pending, emitted, Runtime>>

\* No rule matches: a compile error; the crate gets nothing.
DefaultNoRule ==
    /\ pc = "Pending" /\ macro = "struct_default"
    /\ ~DefaultUnitRuleMatches(pending)
    /\ ~DefaultStructRuleMatches(pending)
    /\ ~DefaultEmptyRuleMatches(pending)
    /\ pc' = "Failed"
    /\ UNCHANGED <<macro, batch, pending, emitted, output, Runtime>>

NewUnitRule ==
    /\ pc = "Pending" /\ macro = "struct_new"
    /\ NewUnitRuleMatches(pending)
    /\ emitted' = emitted \o <<NewUnitStruct(pending[1])>>
    /\ pending' = <<>>
    /\ output' = emitted'
    /\ pc' = "Done"
    /\ UNCHANGED <<macro, batch, Runtime>>

NewStructRule ==
    /\ pc = "Pending" /\ macro = "struct_new"
    /\ ~NewUnitRuleMatches(pending)
    /\ NewStructRuleMatches(pending)
    /\ emitted' = emitted \o NewStructItems(pending[1])
    /\ pending' = NewTail(pending)
    /\ UNCHANGED <<macro, batch, output, pc, Runtime>>

NewEmptyRule ==
    /\ pc = "Pending" /\ macro = "struct_new"
    /\ ~NewUnitRuleMatches(pending)
    /\ ~NewStructRuleMatches(pending)
    /\ NewEmptyRuleMatches(pending)
    /\ output' = emitted
    /\ pc' = "Done"
    /\ UNCHANGED <<macro, batch, pending, emitted, Runtime>>

\* No rule matches: a compile error; the crate gets nothing.
NewNoRule ==
    /\ pc = "Pending" /\ macro = "struct_new"
    /\ ~NewUnitRuleMatches(pending)
    /\ ~NewStructRuleMatches(pending)
    /\ ~NewEmptyRuleMatches(pending)
    /\ pc' = "Failed"
    /\ UNCHANGED <<macro, batch, pending, emitted, output, Runtime>>

(***************************************************************************)
(* The generated code at run time.                                         *)
(***************************************************************************)

\* The value of an expression evaluated when the clock reads t.
EvalExpr(e, t) == IF e.op = "lit" THEN e.v ELSE t

\* The argument bound to the parameter called name.
ArgOf(params, args, name) ==
    args[CHOOSE i \in 1..Len(params) : params[i].name = name]

\* The struct literal of a constructor body, evaluated field by field.
EvalBody(fn, args, t) ==
    [i \in 1..Len(fn.body) |->
        [name |-> fn.body[i].name,
         value |-> IF fn.body[i].src = "param"
                   THEN ArgOf(fn.params, args, fn.body[i].name)
                   ELSE EvalExpr(fn.body[i].expr, t)]]

Expansion == <<macro, batch, pending, emitted, output, pc>>

\* X::default()
CallDefault ==
    /\ pc = "Done"
    /\ \E k \in 1..Len(output) :
        /\ output[k].kind = "impl"
        /\ output[k].fn.name = "default"
        /\ call' = [fn |-> "default", target |-> output[k].name,
                    args |-> <<>>, at |-> clock]
        /\ instance' = EvalBody(output[k].fn, <<>>, clock)
    /\ UNCHANGED <<Expansion, clock>>

\* X::new(a1, .., an)
CallNew ==
    /\ pc = "Done"
    /\ \E k \in 1..Len(output) :
        /\ output[k].kind = "impl"
        /\ output[k].fn.name = "new"
        /\ \E args \in [1..Len(output[k].fn.params) -> ArgValues] :
            /\ call' = [fn |-> "new", target |-> output[k].name,
                        args |-> args, at |-> clock]
            /\ instance' = EvalBody(output[k].fn, args, clock)
    /\ UNCHANGED <<Expansion, clock>>

\* Time passes in the running program.
Tick ==
    /\ pc = "Done"
    /\ clock < MaxClock
    /\ clock' = clock + 1
    /\ UNCHANGED <<Expansion, call, instance>>

Expand ==
    \/ DefaultUnitRule
    \/ DefaultStructRule
    \/ DefaultEmptyRule
    \/ DefaultNoRule
    \/ NewUnitRule
    \/ NewStructRule
    \/ NewEmptyRule
    \/ NewNoRule

Next ==
    \/ DefaultUnitRule
    \/ DefaultStructRule
    \/ DefaultEmptyRule
    \/ DefaultNoRule
    \/ NewUnitRule
    \/ NewStructRule
    \/ NewEmptyRule
    \/ NewNoRule
    \/ CallDefault
    \/ CallNew
    \/ Tick

Spec == Init /\ [][Next]_vars

\* Macro expansion runs to completion: an enabled expansion step is taken.
FairSpec == Spec /\ WF_vars(Expand)

TypeOK ==
    /\ macro \in Macros
    /\ pc \in {"Pending", "Done", "Failed"}
    /\ clock \in 0..MaxClock
    /\ Len(pending) <= Len(batch)

(***************************************************************************)
(* Vocabulary of the properties.                                           *)
(***************************************************************************)
IsStruct(a) == a.kind = "struct"
IsImpl(a) == a.kind = "impl"
Structs(items) == SelectSeq(items, IsStruct)
Impls(items) == SelectSeq(items, IsImpl)

\* The impl blocks among items that belong to the struct called n.
ImplsOf(items, n) == { k \in 1..Len(items) : IsImpl(items[k]) /\ items[k].name = n }

\* The declaration of the batch called n.
DeclOf(n) == batch[CHOOSE i \in 1..Len(batch) : batch[i].name = n]

\* A field block with a field that lacks its default expression.
Malformed(d) == \E i \in 1..Len(d.fields) : d.fields[i].val = NoDefault
HasMalformed == \E i \in 1..Len(batch) : Malformed(batch[i])
AllWellFormed == ~HasMalformed

\* The fields a declaration asks for: parameters first, then defaults.
DeclaredFields(d) ==
    [j \in 1..(Len(d.params) + Len(d.fields)) |->
        IF j <= Len(d.params)
        THEN [vis |-> d.params[j].vis, name |-> d.params[j].name,
              type |-> d.params[j].type]
        ELSE [vis |-> d.fields[j - Len(d.params)].vis,
              name |-> d.fields[j - Len(d.params)].name,
              type |-> d.fields[j - Len(d.params)].type]]

\* The instance holds value v in field f, and f occurs once.
Holds(inst, f, v) ==
    /\ \E j \in 1..Len(inst) : inst[j].name = f /\ inst[j].value = v
    /\ Cardinality({ j \in 1..Len(inst) : inst[j].name = f }) = 1

IsSuffix(s, t) ==
    /\ Len(s) <= Len(t)
    /\ \A i \in 1..Len(s) : s[i] = t[Len(t) - Len(s) + i]

\* The visibility a caller meets on a constructor: a trait method is as
\* visible as the type it is implemented for.
CtorVis(impl, structVis) == IF impl.trait # "" THEN structVis ELSE impl.fn.vis

(***************************************************************************)
(* C1: in struct_default, default() returns an instance in which every     *)
(* declared field holds the value of its own default expression, evaluated *)
(* when the call is made; no field is missing and none has another field's *)
(* default.                                                                *)
(***************************************************************************)
C1_DefaultFillsEveryFieldFromItsOwnDefault ==
    (macro = "struct_default" /\ call.fn = "default") =>
        LET d == DeclOf(call.target) IN
        /\ Len(instance) = Len(d.fields)
        /\ \A i \in 1..Len(d.fields) :
              Holds(instance, d.fields[i].name, EvalExpr(d.fields[i].val, call.at))

C1_Witness ==
    /\ macro = "struct_default"
    /\ call.fn = "default"
    /\ call.at > 0
    /\ Len(DeclOf(call.target).fields) = 2
    /\ Len(instance) = 2

(***************************************************************************)
(* C2: in struct_new, for a declaration with a parameter list p1..pn, new  *)
(* takes exactly the n parameters (names and types, declared order), and   *)
(* new(a1..an) returns an instance whose i-th parameter-backed field is ai *)
(* and whose default-backed fields hold their own defaults' values.        *)
(***************************************************************************)
C2_NewBindsParamsAndDefaults ==
    (macro = "struct_new" /\ call.fn = "new" /\ DeclOf(call.target).hasParams) =>
        LET d == DeclOf(call.target)
            impl == output[CHOOSE k \in ImplsOf(output, d.name) : TRUE]
        IN
        /\ Len(impl.fn.params) = Len(d.params)
        /\ \A i \in 1..Len(d.params) :
              /\ impl.fn.params[i].name = d.params[i].name
              /\ impl.fn.params[i].type = d.params[i].type
        /\ Len(call.args) = Len(d.params)
        /\ Len(instance) = Len(d.params) + Len(d.fields)
        /\ \A i \in 1..Len(d.params) :
              Holds(instance, d.params[i].name, call.args[i])
        /\ \A i \in 1..Len(d.fields) :
              Holds(instance, d.fields[i].name, EvalExpr(d.fields[i].val, call.at))

C2_Witness ==
    /\ macro = "struct_new"
    /\ call.fn = "new"
    /\ call.at > 0
    /\ Len(call.args) = 2
    /\ call.args[1] # call.args[2]
    /\ Len(instance) = 4

(***************************************************************************)
(* C3 (as claimed): struct_new accepts a batch that mixes the three shapes *)
(* in any order, a Unit declaration before other declarations included:   *)
(* a batch of well-formed declarations never fails and, once Done, its     *)
(* definitions are in batch order.  Units are written bare here, so that   *)
(* only their position is at stake.                                        *)
(***************************************************************************)
C3_MixedBatchInAnyOrder ==
    ( /\ macro = "struct_new"
      /\ AllWellFormed
      /\ \A i \in 1..Len(batch) :
            batch[i].body = "unit" =>
                batch[i].attrs = <<>> /\ batch[i].generics = <<>> /\ batch[i].where = <<>> )
    =>
    /\ pc # "Failed"
    /\ pc = "Done" =>
          /\ Len(Structs(output)) = Len(batch)
          /\ \A i \in 1..Len(batch) : Structs(output)[i].name = batch[i].name

(***************************************************************************)
(* C4: when a batch of N declarations is processed to completion, the      *)
(* output holds exactly N struct definitions, the i-th defining the i-th   *)
(* declaration, with no generated function for a Unit declaration and      *)
(* exactly one for a declaration with a field block, an empty one          *)
(* included.                                                               *)
(***************************************************************************)
C4_OneStructPerDeclaration ==
    pc = "Done" =>
        /\ Len(Structs(output)) = Len(batch)
        /\ \A i \in 1..Len(batch) :
              /\ Structs(output)[i].name = batch[i].name
              /\ Structs(output)[i].unit = (batch[i].body = "unit")
              /\ Cardinality(ImplsOf(output, batch[i].name))
                    = IF batch[i].body = "unit" THEN 0 ELSE 1
        /\ Len(Impls(output)) + Len(Structs(output)) = Len(output)

C4_Witness ==
    /\ pc = "Done"
    /\ Len(batch) = 2
    /\ batch[1].body = "block" /\ batch[1].fields = <<>> /\ ~batch[1].hasParams
    /\ batch[2].body = "unit"
    /\ Len(output) = 3

C6_VisibilityOnStructAndConstructor ==
    pc = "Done" =>
        \A k \in 1..Len(output) :
            /\ IsStruct(output[k]) => output[k].vis = DeclOf(output[k].name).vis
            /\ IsImpl(output[k]) =>
                  CtorVis(output[k], DeclOf(output[k].name).vis)
                      = DeclOf(output[k].name).vis

(***************************************************************************)
(* C7 (as claimed): both generators accept a declaration with generics     *)
(* and/or where-clauses and put the same generics and where-clauses on the *)
(* struct definition and on the impl block.  Stated for struct_default on  *)
(* batches of well-formed field-block declarations without parameters.     *)
(***************************************************************************)
C7_GenericsAndWhereAcceptedAndPropagated ==
    ( /\ macro = "struct_default"
      /\ AllWellFormed
      /\ \A i \in 1..Len(batch) : batch[i].body = "block" /\ ~batch[i].hasParams )
    =>
    /\ pc # "Failed"
    /\ pc = "Done" =>
          \A k \in 1..Len(output) :
              /\ output[k].generics = DeclOf(output[k].name).generics
              /\ output[k].where = DeclOf(output[k].name).where

(***************************************************************************)
(* C8: the fields of every emitted struct are the parameter-backed fields  *)
(* in declared order followed by the default-backed fields in declared     *)
(* order, each with its visibility and type and without its default; the   *)
(* constructor body initialises the fields in the same order.              *)
(***************************************************************************)
C8_FieldOrderPreserved ==
    \A k \in 1..Len(emitted) :
        LET d == DeclOf(emitted[k].name) IN
        /\ IsStruct(emitted[k]) => emitted[k].fields = DeclaredFields(d)
        /\ IsImpl(emitted[k]) =>
              /\ Len(emitted[k].fn.body) = Len(DeclaredFields(d))
              /\ \A j \in 1..Len(emitted[k].fn.body) :
                    emitted[k].fn.body[j].name = DeclaredFields(d)[j].name

C8_Witness ==
    /\ pc = "Done"
    /\ macro = "struct_new"
    /\ \E k \in 1..Len(output) :
          /\ IsStruct(output[k])
          /\ Len(output[k].fields) = 4
          /\ Len(DeclOf(output[k].name).params) = 2

(***************************************************************************)
(* C9 (as claimed): the attributes of a declaration of any shape, Unit     *)
(* included, are accepted and put, in order, on the struct definition and  *)
(* on nothing else.  Stated for struct_new on well-formed batches whose    *)
(* Unit declarations stand last and carry no generics or where-clauses.    *)
(***************************************************************************)
C9_AttributesOnStructOnly ==
    ( /\ macro = "struct_new"
      /\ AllWellFormed
      /\ \A i \in 1..Len(batch) :
            batch[i].body = "unit" =>
                i = Len(batch) /\ batch[i].generics = <<>> /\ batch[i].where = <<>> )
    =>
    /\ pc # "Failed"
    /\ pc = "Done" =>
          \A k \in 1..Len(output) :
              /\ IsStruct(output[k]) => output[k].attrs = DeclOf(output[k].name).attrs
              /\ IsImpl(output[k]) => output[k].attrs = <<>>

(***************************************************************************)
(* C10: the sequencer terminates.  Each step that changes the pending      *)
(* sequence pops exactly its head, the pending sequence is a suffix of the *)
(* batch, every popped declaration has been dispatched exactly once, Done  *)
(* means nothing is pending and nothing more is emitted, and every run     *)
(* ends in Done or Failed.                                                 *)
(***************************************************************************)
C10_SequencerTerminates ==
    /\ [][pending' # pending => (pending # <<>> /\ pending' = Tail(pending))]_vars
    /\ [][pc = "Done" => (pc' = "Done" /\ output' = output /\ emitted' = emitted)]_vars
    /\ [](IsSuffix(pending, batch))
    /\ [](Len(Structs(emitted)) + Len(pending) = Len(batch))
    /\ [](pc = "Done" => pending = <<>>)
    /\ <>[](pc \in {"Done", "Failed"})

C10_Witness ==
    /\ pc = "Done"
    /\ Len(batch) = 2
    /\ pending = <<>>
    /\ Len(Structs(output)) = 2

====
